---- MODULE Spec2Model ----
(***************************************************************************)
(* A model of rustmaps.py (src/src/rustmaps/rustmaps.py): the client-side  *)
(* rate limiter (Rustmaps._is_rate_limited over _request_timestamps) and   *)
(* the three public operations that pass through it (get_map,              *)
(* get_map_by_id, generate_map).                                           *)
(*                                                                         *)
(* Time.  time.time_ns() is an integer number of nanoseconds.  The model   *)
(* counts time in ticks, TicksPerSecond ticks to the second, so that the   *)
(* rounding int(ceil((now - stamp) / 10 ** 9)) is a real rounding.  The    *)
(* two windows (60 s and 3600 s in the source) and the two maxima (80 and  *)
(* 3600 in the source) are scaled down to MinuteWindow, HourWindow,        *)
(* MAX_REQUESTS_PER_MINUTE and MAX_REQUESTS_PER_HOUR so that every record  *)
(* the limiter can reach is enumerated; the code is the same for any       *)
(* values with MinuteWindow < HourWindow.                                  *)
(*                                                                         *)
(* Python values are modelled as records [type, repr, fields, items]: a    *)
(* dict is its set of <<key, repr of value>> pairs, a list its sequence of *)
(* reprs, a scalar its repr.                                               *)
(***************************************************************************)
EXTENDS Integers, Sequences, FiniteSets, TLC

VARIABLES
    request_timestamps, \* self._request_timestamps: sequence of ticks
    clock,              \* what time.time_ns() returns now, in ticks
    sent,               \* network requests handed to requests.get / requests.post
    appended,           \* appends made to self._request_timestamps
    last,               \* the call the caller has just made, and how it ended
    pc,                 \* per thread: where it is inside _get_map_data / generate_map
    seen,               \* per thread: the record its rate-limit check left behind
    scan                \* the for loop of _is_rate_limited while it is running

vars == <<request_timestamps, clock, sent, appended, last, pc, seen, scan>>

----------------------------------------------------------------------------
(* Bounds of the model *)

\* ticks per second (10 ** 9 in the source)
TicksPerSecond == 2
\* the short window in seconds (60 in the source)
MinuteWindow == 1
\* the long window in seconds (3600 in the source)
HourWindow == 2
\* self.MAX_REQUESTS_PER_MINUTE (80 in the source)
MAX_REQUESTS_PER_MINUTE == 2
\* self.MAX_REQUESTS_PER_HOUR (3600 in the source)
MAX_REQUESTS_PER_HOUR == 3
\* the clock stops after this many seconds
MaxSeconds == 3
\* longest record the quota tracker is driven to on its own
MaxRecord == 4
\* threads sharing one client
NumThreads == 2
\* how far on either side of a range end the validators are probed
ProbeWidth == 30

MaxClock == MaxSeconds * TicksPerSecond
Threads == 1..NumThreads

----------------------------------------------------------------------------
(* Program constants *)

MIN_MAP_SEED == 0
MAX_MAP_SEED == 2147483645
MIN_MAP_SIZE == 1000
MAX_MAP_SIZE == 6000

----------------------------------------------------------------------------
(* Python values *)

PyNone == [type |-> "NoneType", repr |-> "None", fields |-> {}, items |-> <<>>]
PyFalse == [type |-> "bool", repr |-> "False", fields |-> {}, items |-> <<>>]
PyTrue == [type |-> "bool", repr |-> "True", fields |-> {}, items |-> <<>>]
PyStr(r) == [type |-> "str", repr |-> r, fields |-> {}, items |-> <<>>]
PyDict(f) == [type |-> "dict", repr |-> "", fields |-> f, items |-> <<>>]
PyList(s) == [type |-> "list", repr |-> "", fields |-> {}, items |-> s]

\* bool(v) for the values above
Truthy(v) ==
    CASE v.type = "NoneType" -> FALSE
      [] v.type = "bool" -> v.repr = "True"
      [] v.type = "str" -> v.repr # "''"
      [] v.type = "dict" -> v.fields # {}
      [] v.type = "list" -> v.items # <<>>

\* key in d
HasKey(d, k) == \E p \in d.fields : p[1] = k
\* d[key] for a key that is there, as a repr
GetItem(d, k) == (CHOOSE p \in d.fields : p[1] = k)[2]
\* d[key] = value
SetItem(d, k, r) == PyDict({p \in d.fields : p[1] # k} \cup {<<k, r>>})
\* bool of a value held in a dict or list, from its repr
TruthyRepr(r) == r \notin {"None", "False", "''", "0", "{}", "[]"}

----------------------------------------------------------------------------
(* The rate limiter *)

\* int(ceil(a / b)) for integers a and b > 0
CeilDiv(a, b) == -((-a) \div b)

\* the difference taken the wrong way round, stamp - now
StampDiffReversed(now, stamp) == CeilDiv(stamp - now, TicksPerSecond)

\* the elapsed seconds rounded down instead of up
StampDiffFloor(now, stamp) == (now - stamp) \div TicksPerSecond

\* stamp_diff: whole seconds since stamp, rounded up
StampDiff(now, stamp) == CeilDiv(now - stamp, TicksPerSecond)

\* the removal taking the last item of the list, as list.pop() would
ListRemoveLast(s, x) == IF s = <<>> THEN <<>> ELSE SubSeq(s, 1, Len(s) - 1)

\* list.remove(x): the list without the first item equal to x
RECURSIVE ListRemove(_, _)
ListRemove(s, x) ==
    IF s = <<>> THEN <<>>
    ELSE IF Head(s) = x THEN Tail(s)
    ELSE <<Head(s)>> \o ListRemove(Tail(s), x)

\* one iteration of the loop left at the index it came with
ScanStepNoAdvance(stamps, i, now, reqs_this_minute, reqs_this_hour) ==
    [stamps |-> stamps, i |-> i,
     reqs_this_minute |-> reqs_this_minute,
     reqs_this_hour |-> reqs_this_hour]

\* one iteration of the for loop of _is_rate_limited, at index i of the list
\* as it is now: the list, the index and the counters it leaves
ScanStep(stamps, i, now, reqs_this_minute, reqs_this_hour) ==
    LET stamp == stamps[i]
        stamp_diff == StampDiff(now, stamp)
    IN  IF stamp_diff > HourWindow
        THEN [stamps |-> ListRemove(stamps, stamp), i |-> i + 1,
              reqs_this_minute |-> reqs_this_minute,
              reqs_this_hour |-> reqs_this_hour]
        ELSE [stamps |-> stamps, i |-> i + 1,
              reqs_this_minute |-> reqs_this_minute
                  + (IF stamp_diff <= MinuteWindow THEN 1 ELSE 0),
              reqs_this_hour |-> reqs_this_hour
                  + (IF stamp_diff <= HourWindow THEN 1 ELSE 0)]

\* the for loop of _is_rate_limited: a list iterator holds an index into the
\* list, the list as it is when the index is used
RECURSIVE ScanFrom(_, _, _, _, _)
ScanFrom(stamps, i, now, reqs_this_minute, reqs_this_hour) ==
    IF i > Len(stamps)
    THEN [stamps |-> stamps,
          reqs_this_minute |-> reqs_this_minute,
          reqs_this_hour |-> reqs_this_hour]
    ELSE LET step == ScanStep(stamps, i, now, reqs_this_minute, reqs_this_hour)
         IN  ScanFrom(step.stamps, step.i, now,
                      step.reqs_this_minute, step.reqs_this_hour)

\* _is_rate_limited() with the maxima compared by > instead of >=
IsRateLimitedOffByOne(stamps, now) ==
    IF Len(stamps) = 0
    THEN [limited |-> FALSE, stamps |-> stamps]
    ELSE LET r == ScanFrom(stamps, 1, now, 0, 0)
         IN [limited |-> (r.reqs_this_minute > MAX_REQUESTS_PER_MINUTE)
                         \/ (r.reqs_this_hour > MAX_REQUESTS_PER_HOUR),
             stamps |-> r.stamps]

\* _is_rate_limited(): the verdict and the record it leaves
IsRateLimited(stamps, now) ==
    IF Len(stamps) = 0
    THEN [limited |-> FALSE, stamps |-> stamps]
    ELSE LET r == ScanFrom(stamps, 1, now, 0, 0)
         IN [limited |-> (r.reqs_this_minute >= MAX_REQUESTS_PER_MINUTE)
                         \/ (r.reqs_this_hour >= MAX_REQUESTS_PER_HOUR),
             stamps |-> r.stamps]

----------------------------------------------------------------------------
(* Validation *)

\* the seed range taken as open at both ends
ValidateMapSeedExclusive(seed) == seed > MIN_MAP_SEED /\ seed < MAX_MAP_SEED

\* _validate_map_seed: TRUE when it returns True, FALSE when it raises ValueError
ValidateMapSeed(seed) == seed >= MIN_MAP_SEED /\ seed <= MAX_MAP_SEED

\* _validate_map_size: TRUE when it returns True, FALSE when it raises ValueError
ValidateMapSize(size) == size >= MIN_MAP_SIZE /\ size <= MAX_MAP_SIZE

\* [\da-f] under re.IGNORECASE on a str pattern: \d is any Unicode decimal
\* digit, of which "U+0663" (ARABIC-INDIC DIGIT THREE) stands for the non-ASCII ones
HexClass ==
    {"0", "1", "2", "3", "4", "5", "6", "7", "8", "9", "U+0663",
     "a", "b", "c", "d", "e", "f", "A", "B", "C", "D", "E", "F"}

\* the places of the three "-" of ([\da-f]{4}-){3} and of the one before them
DashAt == {9, 14, 19, 24}

\* _validate_uuid: _UUID_PATTERN.match(uuid) on a string given as its sequence of
\* characters; "$" matches at the end and also before a newline that ends the string
ValidateUuid(uuid) ==
    LET n == IF Len(uuid) > 0 /\ uuid[Len(uuid)] = "\n"
             THEN Len(uuid) - 1 ELSE Len(uuid)
    IN  /\ n = 36
        /\ \A i \in 1..36 :
              IF i \in DashAt THEN uuid[i] = "-" ELSE uuid[i] \in HexClass

----------------------------------------------------------------------------
(* The transport and what the operations make of its answer *)

\* how a call ends: it returns a value or raises an exception
Return(v) == [kind |-> "return", value |-> v, exc |-> "", arg |-> "", code |-> 0]
Raise(e, a, c) == [kind |-> "raise", value |-> PyNone, exc |-> e, arg |-> a, code |-> c]

\* r.json(): the decoded body, or JSONDecodeError when the body is no JSON text
Json(resp) ==
    IF resp.body.json THEN Return(resp.body.value)
    ELSE Raise("JSONDecodeError", "", 0)

\* r.raise_for_status(): HTTPError for a 4xx or 5xx status, otherwise it returns
\* and the operation falls off its end, returning None
RaiseForStatus(resp) ==
    IF resp.status >= 400 /\ resp.status < 600
    THEN Raise("HTTPError", "", resp.status)
    ELSE Return(PyNone)

\* a fresh dict holding the flag alone, in place of the tagged body
TagExistsOnly(v, flag) ==
    IF v.type = "dict" THEN Return(PyDict({<<"exists", flag>>}))
    ELSE Raise("TypeError", "", 0)

\* response_json['exists'] = flag; return response_json
TagExists(v, flag) ==
    IF v.type = "dict" THEN Return(SetItem(v, "exists", flag))
    ELSE Raise("TypeError", "", 0)

\* the status ladder of _get_map_data without its 404 rung
ReadOutcomeNotFoundRaises(resp) ==
    IF resp.status = 200 THEN Json(resp)
    ELSE IF resp.status = 409 THEN Json(resp)
    ELSE RaiseForStatus(resp)

\* the status ladder of _get_map_data
ReadOutcome(resp) ==
    IF resp.status = 200 THEN Json(resp)
    ELSE IF resp.status = 404 THEN Return(PyFalse)
    ELSE IF resp.status = 409 THEN Json(resp)
    ELSE RaiseForStatus(resp)

\* the 400 branch of generate_map:
\* if r.json() and r.json()['reason']: raise RuntimeError(...) else: r.raise_for_status()
BadRequestOutcome(resp) ==
    LET j == Json(resp)
    IN  IF j.kind = "raise" THEN j
        ELSE IF ~Truthy(j.value) THEN RaiseForStatus(resp)
        ELSE IF j.value.type # "dict" THEN Raise("TypeError", "", 0)
        ELSE IF ~HasKey(j.value, "reason") THEN Raise("KeyError", "'reason'", 0)
        ELSE IF TruthyRepr(GetItem(j.value, "reason"))
             THEN Raise("RuntimeError", GetItem(j.value, "reason"), 0)
        ELSE RaiseForStatus(resp)

\* the status ladder of generate_map
CreateOutcome(resp) ==
    LET j == Json(resp)
    IN  IF resp.status = 200
        THEN IF j.kind = "raise" THEN j ELSE TagExists(j.value, "False")
        ELSE IF resp.status = 400 THEN BadRequestOutcome(resp)
        ELSE IF resp.status = 409
        THEN IF j.kind = "raise" THEN j ELSE TagExists(j.value, "True")
        ELSE RaiseForStatus(resp)

----------------------------------------------------------------------------
(* What the caller and the remote service may supply *)

\* a seed inside [MIN_MAP_SEED, MAX_MAP_SEED] and one past each end
Seeds == {MIN_MAP_SEED - 1, MAX_MAP_SEED, MAX_MAP_SEED + 1}

\* a size inside [MIN_MAP_SIZE, MAX_MAP_SIZE] and one past each end
Sizes == {MIN_MAP_SIZE - 1, MIN_MAP_SIZE, MAX_MAP_SIZE + 1}

\* '474b4c64-ab86-4128-a075-e88737fa5820', the identifier the tests use
MAP_ID ==
    <<"4", "7", "4", "b", "4", "c", "6", "4", "-",
      "a", "b", "8", "6", "-", "4", "1", "2", "8", "-",
      "a", "0", "7", "5", "-",
      "e", "8", "8", "7", "3", "7", "f", "a", "5", "8", "2", "0">>

\* identifiers: a UUID in mixed case, a UUID followed by a newline, one
\* character short, a letter past f, and a digit where a dash belongs
MapIds ==
    { [MAP_ID EXCEPT ![4] = "B", ![36] = "F"],
      MAP_ID \o <<"\n">>,
      SubSeq(MAP_ID, 1, 35),
      [MAP_ID EXCEPT ![1] = "g"],
      [MAP_ID EXCEPT ![9] = "4"] }

\* what the service may put in a body: no JSON at all, or a JSON value
Bodies ==
    { [json |-> FALSE, value |-> PyNone],
      [json |-> TRUE, value |-> PyDict({})],
      [json |-> TRUE, value |-> PyDict({<<"mapId", "'474b4c64'">>})],
      [json |-> TRUE, value |-> PyDict({<<"reason", "'seed taken'">>})],
      [json |-> TRUE, value |-> PyDict({<<"reason", "''">>})],
      [json |-> TRUE, value |-> PyDict({<<"message", "'bad request'">>})] }

\* status codes: the ones the operations name, and others of each class
Statuses == {200, 204, 400, 404, 409, 500}

\* the transport returns a response or raises (timeout, connection failure)
NoResponse == [raised |-> FALSE, status |-> 0, body |-> [json |-> FALSE, value |-> PyNone]]
TransportFailure == [raised |-> TRUE, status |-> 0, body |-> [json |-> FALSE, value |-> PyNone]]
Responses ==
    {TransportFailure}
    \cup {[raised |-> FALSE, status |-> st, body |-> b] : st \in Statuses, b \in Bodies}

----------------------------------------------------------------------------
(* The client *)

\* the caller is between calls; of a call, last keeps the arguments, the
\* clock, record and counters on entry, what the call did, and how it ended
NoCall ==
    [op |-> "none", seed |-> 0, size |-> 0, map_id |-> <<>>,
     now |-> 0, before |-> <<>>, sent0 |-> 0, appended0 |-> 0,
     checked |-> FALSE, limited |-> FALSE,
     warned |-> FALSE, requested |-> FALSE, resp |-> NoResponse,
     out |-> Return(PyNone)]

\* no _is_rate_limited is running; inside one, scan keeps the iterator's index,
\* the instant read on entry, the two counters, the entries visited so far
\* and the record on entry
NotScanning ==
    [pc |-> "idle", i |-> 0, now |-> 0,
     reqs_this_minute |-> 0, reqs_this_hour |-> 0,
     visited |-> 0, entry |-> <<>>]

\* __init__: an empty record; the clock reads 0 at construction
Init ==
    /\ request_timestamps = <<>>
    /\ clock = 0
    /\ sent = 0
    /\ appended = 0
    /\ last = NoCall
    /\ pc = [t \in Threads |-> "idle"]
    /\ seen = [t \in Threads |-> <<>>]
    /\ scan = NotScanning

\* the append left out
RecordAttemptDropped(stamps, now) == stamps

\* the append made a second time, as a resend of the attempt would
RecordAttemptTwice(stamps, now) == Append(Append(stamps, now), now)

\* self._request_timestamps.append(time.time_ns())
RecordAttempt(stamps, now) == Append(stamps, now)

\* the rate-limited branch raising its warning instead of returning
SkipOutcomeRaises == Raise("RuntimeWarning", "", 0)

\* what the rate-limited branch hands back: warn(...) and a bare return
SkipOutcome == Return(PyNone)

\* a validator raised ValueError: nothing else of the operation runs
Rejected(op, seed, size, map_id) ==
    /\ last' = [NoCall EXCEPT !.op = op, !.seed = seed, !.size = size,
                              !.map_id = map_id, !.now = clock,
                              !.before = request_timestamps,
                              !.sent0 = sent, !.appended0 = appended,
                              !.out = Raise("ValueError", "", 0)]
    /\ UNCHANGED <<request_timestamps, clock, sent, appended, pc, seen, scan>>

\* the body shared by _get_map_data and generate_map: the rate-limit check, then
\* the append, then the request; kind says whose status ladder reads the answer
Gate(op, seed, size, map_id, kind) ==
    LET chk == IsRateLimited(request_timestamps, clock)
        call == [NoCall EXCEPT !.op = op, !.seed = seed, !.size = size,
                               !.map_id = map_id, !.now = clock,
                               !.before = request_timestamps,
                               !.sent0 = sent, !.appended0 = appended,
                               !.checked = TRUE]
    IN  IF chk.limited
        THEN /\ request_timestamps' = chk.stamps
             /\ last' = [call EXCEPT !.limited = TRUE, !.warned = TRUE,
                                     !.out = SkipOutcome]
             /\ UNCHANGED <<clock, sent, appended, pc, seen, scan>>
        ELSE \E dt \in 0..1, resp \in Responses :
             /\ clock + dt <= MaxClock
             /\ clock' = clock + dt
             /\ request_timestamps' = RecordAttempt(chk.stamps, clock + dt)
             /\ appended' = appended + (Len(request_timestamps') - Len(chk.stamps))
             /\ sent' = sent + 1
             /\ last' = [call EXCEPT
                            !.requested = TRUE,
                            !.resp = resp,
                            !.out = IF resp.raised THEN Raise("ConnectionError", "", 0)
                                    ELSE IF kind = "read" THEN ReadOutcome(resp)
                                    ELSE CreateOutcome(resp)]
             /\ UNCHANGED <<pc, seen, scan>>

\* get_map(seed, size)
GetMap ==
    /\ last = NoCall
    /\ \E seed \in Seeds, size \in Sizes :
          IF ValidateMapSeed(seed) /\ ValidateMapSize(size)
          THEN Gate("get_map", seed, size, <<>>, "read")
          ELSE Rejected("get_map", seed, size, <<>>)

\* get_map_by_id(map_id)
GetMapById ==
    /\ last = NoCall
    /\ \E map_id \in MapIds :
          IF ValidateUuid(map_id)
          THEN Gate("get_map_by_id", 0, 0, map_id, "read")
          ELSE Rejected("get_map_by_id", 0, 0, map_id)

\* generate_map(seed, size): no validator is called
GenerateMap ==
    /\ last = NoCall
    /\ \E seed \in Seeds, size \in Sizes :
          Gate("generate_map", seed, size, <<>>, "create")

\* the caller takes the result and is free to call again
Ack ==
    /\ last # NoCall
    /\ last' = NoCall
    /\ UNCHANGED <<request_timestamps, clock, sent, appended, pc, seen, scan>>

\* time passes
Tick ==
    /\ last = NoCall
    /\ clock < MaxClock
    /\ clock' = clock + 1
    /\ UNCHANGED <<request_timestamps, sent, appended, last, pc, seen, scan>>

Next == GenerateMap \/ GetMap \/ GetMapById \/ Ack \/ Tick

\* one caller using one client
Spec == Init /\ [][Next]_vars

----------------------------------------------------------------------------
(* The quota tracker on its own: _is_rate_limited and the append, called in *)
(* any order on records of up to MaxRecord entries                          *)

\* _is_rate_limited() called directly
QIsAllowed ==
    /\ last = NoCall
    /\ LET chk == IsRateLimited(request_timestamps, clock)
       IN  /\ request_timestamps' = chk.stamps
           /\ last' = [NoCall EXCEPT !.op = "_is_rate_limited", !.now = clock,
                                     !.before = request_timestamps,
                                     !.sent0 = sent, !.appended0 = appended,
                                     !.checked = TRUE, !.limited = chk.limited,
                                     !.out = Return(IF chk.limited THEN PyTrue
                                                    ELSE PyFalse)]
    /\ UNCHANGED <<clock, sent, appended, pc, seen, scan>>

\* the append of an attempt, whatever the check would say
QRecordAttempt ==
    /\ last = NoCall
    /\ Len(request_timestamps) < MaxRecord
    /\ request_timestamps' = RecordAttempt(request_timestamps, clock)
    /\ appended' = appended + 1
    /\ UNCHANGED <<clock, sent, last, pc, seen, scan>>

NextQuota == QIsAllowed \/ QRecordAttempt \/ Ack \/ Tick

SpecQuota == Init /\ [][NextQuota]_vars

\* the same with time passing, the caller taking each result and the check
\* called again and again
SpecQuotaFair ==
    SpecQuota /\ WF_vars(Tick) /\ WF_vars(Ack) /\ WF_vars(QIsAllowed)

----------------------------------------------------------------------------
(* Several threads calling one client.  Nothing in the class takes a lock:  *)
(* between the return of _is_rate_limited() and the append that follows it  *)
(* the interpreter may run another thread.                                  *)

\* a thread enters _get_map_data or generate_map and runs the rate-limit check
TCheck(t) ==
    /\ pc[t] = "idle"
    /\ LET chk == IsRateLimited(request_timestamps, clock)
       IN  /\ request_timestamps' = chk.stamps
           /\ IF chk.limited
              THEN UNCHANGED <<pc, seen>>
              ELSE /\ pc' = [pc EXCEPT ![t] = "allowed"]
                   /\ seen' = [seen EXCEPT ![t] = chk.stamps]
    /\ UNCHANGED <<clock, sent, appended, last, scan>>

\* the thread appends its timestamp and sends the request
TSend(t) ==
    /\ pc[t] = "allowed"
    /\ request_timestamps' = RecordAttempt(request_timestamps, clock)
    /\ appended' = appended + (Len(request_timestamps') - Len(request_timestamps))
    /\ sent' = sent + 1
    /\ pc' = [pc EXCEPT ![t] = "idle"]
    /\ seen' = [seen EXCEPT ![t] = <<>>]
    /\ UNCHANGED <<clock, last, scan>>

NextThreads == (\E t \in Threads : TCheck(t)) \/ (\E t \in Threads : TSend(t)) \/ Tick

SpecThreads == Init /\ [][NextThreads]_vars

----------------------------------------------------------------------------
(* The validators on their own, called with values around the ends of the   *)
(* ranges they admit                                                        *)

\* seeds within ProbeWidth of MIN_MAP_SEED and of MAX_MAP_SEED; above the
\* maximum only the two values a 32-bit evaluation can still hold
SeedProbes ==
    (MIN_MAP_SEED - ProbeWidth .. MIN_MAP_SEED + ProbeWidth)
    \cup (MAX_MAP_SEED - ProbeWidth .. MAX_MAP_SEED)
    \cup {MAX_MAP_SEED + 1, MAX_MAP_SEED + 2}

\* sizes within ProbeWidth of MIN_MAP_SIZE and of MAX_MAP_SIZE
SizeProbes ==
    (MIN_MAP_SIZE - ProbeWidth .. MIN_MAP_SIZE + ProbeWidth)
    \cup (MAX_MAP_SIZE - ProbeWidth .. MAX_MAP_SIZE + ProbeWidth)

\* _validate_map_seed(seed) called directly
CallValidateMapSeed ==
    /\ last = NoCall
    /\ \E seed \in SeedProbes :
          last' = [NoCall EXCEPT !.op = "_validate_map_seed", !.seed = seed,
                                 !.now = clock, !.before = request_timestamps,
                                 !.sent0 = sent, !.appended0 = appended,
                                 !.out = IF ValidateMapSeed(seed)
                                         THEN Return(PyTrue)
                                         ELSE Raise("ValueError", "", 0)]
    /\ UNCHANGED <<request_timestamps, clock, sent, appended, pc, seen, scan>>

\* _validate_map_size(size) called directly
CallValidateMapSize ==
    /\ last = NoCall
    /\ \E size \in SizeProbes :
          last' = [NoCall EXCEPT !.op = "_validate_map_size", !.size = size,
                                 !.now = clock, !.before = request_timestamps,
                                 !.sent0 = sent, !.appended0 = appended,
                                 !.out = IF ValidateMapSize(size)
                                         THEN Return(PyTrue)
                                         ELSE Raise("ValueError", "", 0)]
    /\ UNCHANGED <<request_timestamps, clock, sent, appended, pc, seen, scan>>

NextValidate == CallValidateMapSeed \/ CallValidateMapSize \/ Ack

SpecValidate == Init /\ [][NextValidate]_vars

----------------------------------------------------------------------------
(* _is_rate_limited() one iteration at a time.  The record is the list the  *)
(* loop iterates and writes; now is read once, before the loop, and time    *)
(* may pass while the loop runs.                                            *)

\* lines 98-104: the early return on an empty record, else the counters are
\* zeroed, the clock is read and the iterator starts at the first item
LoopEnter ==
    /\ last = NoCall
    /\ scan = NotScanning
    /\ IF Len(request_timestamps) = 0
       THEN /\ last' = [NoCall EXCEPT !.op = "_is_rate_limited", !.now = clock,
                                      !.before = request_timestamps,
                                      !.sent0 = sent, !.appended0 = appended,
                                      !.checked = TRUE, !.limited = FALSE,
                                      !.out = Return(PyFalse)]
            /\ UNCHANGED scan
       ELSE /\ scan' = [NotScanning EXCEPT !.pc = "loop", !.i = 1, !.now = clock,
                                           !.entry = request_timestamps]
            /\ UNCHANGED last
    /\ UNCHANGED <<request_timestamps, clock, sent, appended, pc, seen>>

\* lines 106-117: the iterator has an item left and the body runs on it
LoopIter ==
    /\ scan.pc = "loop"
    /\ scan.i <= Len(request_timestamps)
    /\ LET step == ScanStep(request_timestamps, scan.i, scan.now,
                            scan.reqs_this_minute, scan.reqs_this_hour)
       IN  /\ request_timestamps' = step.stamps
           /\ scan' = [scan EXCEPT !.i = step.i,
                                   !.reqs_this_minute = step.reqs_this_minute,
                                   !.reqs_this_hour = step.reqs_this_hour,
                                   !.visited = @ + 1]
    /\ UNCHANGED <<clock, sent, appended, last, pc, seen>>

\* lines 119-123: the iterator is exhausted and the verdict is returned
LoopReturn ==
    /\ scan.pc = "loop"
    /\ scan.i > Len(request_timestamps)
    /\ LET limited == \/ scan.reqs_this_minute >= MAX_REQUESTS_PER_MINUTE
                      \/ scan.reqs_this_hour >= MAX_REQUESTS_PER_HOUR
       IN  last' = [NoCall EXCEPT !.op = "_is_rate_limited", !.now = scan.now,
                                  !.before = scan.entry,
                                  !.sent0 = sent, !.appended0 = appended,
                                  !.checked = TRUE, !.limited = limited,
                                  !.out = Return(IF limited THEN PyTrue
                                                 ELSE PyFalse)]
    /\ scan' = NotScanning
    /\ UNCHANGED <<request_timestamps, clock, sent, appended, pc, seen>>

\* the append of an attempt, by the one caller, so not while a check runs
LoopRecordAttempt == scan = NotScanning /\ QRecordAttempt

NextLoop ==
    LoopEnter \/ LoopIter \/ LoopReturn \/ LoopRecordAttempt \/ Ack \/ Tick

SpecLoop == Init /\ [][NextLoop]_vars

----------------------------------------------------------------------------
(* Measures the claims are stated with *)

\* entries of a record whose rounded-up age at now is at most w seconds
WindowCount(stamps, now, w) ==
    Cardinality({i \in 1..Len(stamps) : StampDiff(now, stamps[i]) <= w})

\* no entry of the record is older than the long window at now
NoStale(stamps, now) ==
    \A i \in 1..Len(stamps) : StampDiff(now, stamps[i]) <= HourWindow

\* the call just made went through the rate-limit check of a public operation
PublicOps == {"get_map", "get_map_by_id", "generate_map"}

----------------------------------------------------------------------------
(* C1: a request is sent only if, at the allow-check, the entries of the    *)
(* record within the short window number less than MAX_REQUESTS_PER_MINUTE  *)
(* and those within the long window less than MAX_REQUESTS_PER_HOUR, both   *)
(* counted over every entry the record holds at that instant.               *)
C1_DispatchedOnlyBelowMaximums ==
    (last.op \in PublicOps /\ last.requested) =>
        /\ WindowCount(last.before, last.now, MinuteWindow) < MAX_REQUESTS_PER_MINUTE
        /\ WindowCount(last.before, last.now, HourWindow) < MAX_REQUESTS_PER_HOUR

(* C2: with no stale entry in the record, _is_rate_limited() answers "not   *)
(* limited" exactly when fewer than MAX_REQUESTS_PER_MINUTE entries are     *)
(* within the short window and the record holds fewer than                  *)
(* MAX_REQUESTS_PER_HOUR entries.                                           *)
C2_AllowedIffBelowBothMaximums ==
    (last.op = "_is_rate_limited" /\ NoStale(last.before, last.now)) =>
        ((last.out = Return(PyFalse)) <=>
            /\ WindowCount(last.before, last.now, MinuteWindow) < MAX_REQUESTS_PER_MINUTE
            /\ Len(last.before) < MAX_REQUESTS_PER_HOUR)

\* the long window is full while the short one is not, and the check says limited
C2_Witness ==
    /\ last.op = "_is_rate_limited"
    /\ NoStale(last.before, last.now)
    /\ Len(last.before) = MAX_REQUESTS_PER_HOUR
    /\ WindowCount(last.before, last.now, MinuteWindow) < MAX_REQUESTS_PER_MINUTE
    /\ last.out = Return(PyTrue)

(* C3: a call whose allow-check reports rate-limited sends no request,      *)
(* appends nothing to the record, raises nothing (it warns and returns      *)
(* None); and whenever the check passes, whatever came before, the call is  *)
(* dispatched.                                                              *)
C3_SkipIsQuiet ==
    (last.op \in PublicOps /\ last.checked) =>
        IF last.limited
        THEN /\ ~last.requested
             /\ sent = last.sent0
             /\ appended = last.appended0
             /\ request_timestamps = IsRateLimited(last.before, last.now).stamps
             /\ Len(request_timestamps) <= Len(last.before)
             /\ last.warned
             /\ last.out = Return(PyNone)
        ELSE last.requested /\ ~last.warned

\* a call was skipped on a record that had already been pruned and refilled
C3_Witness ==
    /\ last.op \in PublicOps
    /\ last.limited
    /\ last.sent0 > Len(last.before)
    /\ request_timestamps # <<>>

(* C4: every request is preceded in its call by exactly one append of the   *)
(* current time, the entry stays whatever the transport does, and the       *)
(* appends ever made equal the requests ever attempted.                     *)
C4_OneAppendPerRequest ==
    /\ appended = sent
    /\ (last.op \in PublicOps /\ last.requested) =>
          /\ sent = last.sent0 + 1
          /\ appended = last.appended0 + 1
          /\ \E t \in last.now..clock :
                request_timestamps =
                    Append(IsRateLimited(last.before, last.now).stamps, t)
    /\ (last.op \in PublicOps /\ ~last.requested) =>
          /\ sent = last.sent0
          /\ appended = last.appended0

\* the transport raised, and the entry of that attempt is in the record
C4_Witness ==
    /\ last.op \in PublicOps
    /\ last.requested
    /\ last.resp.raised
    /\ last.out.exc = "ConnectionError"
    /\ last.before # <<>>
    /\ request_timestamps[Len(request_timestamps)] = clock

\* the arguments of the call are what the operation's documentation admits
IsUuid(id) ==
    /\ Len(id) = 36
    /\ \A i \in 1..36 :
          IF i \in {9, 14, 19, 24} THEN id[i] = "-"
          ELSE id[i] \in {"0", "1", "2", "3", "4", "5", "6", "7", "8", "9",
                          "a", "b", "c", "d", "e", "f",
                          "A", "B", "C", "D", "E", "F"}
ArgumentsInBounds(call) ==
    IF call.op = "get_map_by_id" THEN IsUuid(call.map_id)
    ELSE /\ 0 <= call.seed /\ call.seed <= 2147483645
         /\ 1000 <= call.size /\ call.size <= 6000

(* C5: each of get_map, get_map_by_id and generate_map, given a seed, size  *)
(* or identifier out of bounds, fails with a validation error before any    *)
(* network activity: no request, no allow-check, no timestamp.              *)
C5_InvalidInputRejected ==
    (last.op \in PublicOps /\ ~ArgumentsInBounds(last)) =>
        /\ last.out.kind = "raise" /\ last.out.exc = "ValueError"
        /\ ~last.requested
        /\ ~last.checked
        /\ request_timestamps = last.before
        /\ sent = last.sent0

(* C6: with several threads on one client, the allow-check and the append   *)
(* that follows it are one atomic section: a thread that passed the check   *)
(* appends to the record exactly as its check left it.                      *)
C6_CheckThenAppendAtomic ==
    \A t \in Threads : pc[t] = "allowed" => request_timestamps = seen[t]

ReadOps == {"get_map", "get_map_by_id"}

\* the transport answered the call just made
Answered == last.requested /\ ~last.resp.raised

(* C7: a dispatched read returns the parsed payload unchanged on 200 and on *)
(* 409 and returns False, raising nothing, on 404; False is not what a      *)
(* rate-limited skip returns.                                               *)
C7_ReadOutcomes ==
    /\ (last.op \in ReadOps /\ Answered) =>
          /\ (last.resp.status \in {200, 409} /\ last.resp.body.json) =>
                last.out = Return(last.resp.body.value)
          /\ last.resp.status = 404 => last.out = Return(PyFalse)
    /\ (last.op \in ReadOps /\ last.limited) =>
          /\ last.out.kind = "return"
          /\ last.out.value # PyFalse

\* a read answered 404 with a JSON body
C7_Witness ==
    /\ last.op \in ReadOps
    /\ Answered
    /\ last.resp.status = 404
    /\ last.resp.body.json
    /\ last.out = Return(PyFalse)

(* C8: a dispatched generate_map returns the parsed payload with exists set *)
(* to False on 200 and to True on 409, every other field as the body has it *)
C8_CreateTagged ==
    (/\ last.op = "generate_map" /\ Answered
     /\ last.resp.status \in {200, 409}
     /\ last.resp.body.json /\ last.resp.body.value.type = "dict") =>
        LET body == last.resp.body.value
            flag == IF last.resp.status = 200 THEN "False" ELSE "True"
        IN  /\ last.out.kind = "return"
            /\ last.out.value.type = "dict"
            /\ last.out.value.fields
                 = {q \in body.fields : q[1] # "exists"} \cup {<<"exists", flag>>}

\* generate_map answered 409 with a body that carries the map identifier
C8_Witness ==
    /\ last.op = "generate_map"
    /\ Answered
    /\ last.resp.status = 409
    /\ last.out.kind = "return"
    /\ <<"exists", "True">> \in last.out.value.fields
    /\ <<"mapId", "'474b4c64'">> \in last.out.value.fields

\* the body of the answer carries a reason a program can read
HasReason(resp) ==
    /\ resp.body.json
    /\ resp.body.value.type = "dict"
    /\ \E q \in resp.body.value.fields : q[1] = "reason" /\ q[2] # "''"

(* C9: generate_map answered 400 fails with RuntimeError carrying the       *)
(* body's reason when there is one, and with HTTPError for every other body *)
(* (no JSON, no 'reason' field, an empty reason): never anything else.      *)
C9_BadRequest ==
    (last.op = "generate_map" /\ Answered /\ last.resp.status = 400) =>
        IF HasReason(last.resp)
        THEN \E q \in last.resp.body.value.fields :
                q[1] = "reason" /\ last.out = Raise("RuntimeError", q[2], 0)
        ELSE last.out = Raise("HTTPError", "", 400)

(* C10: every status an operation does not name (read: not 200, 404, 409;   *)
(* create: not 200, 400, 409) is raised as HTTPError with that status; none *)
(* of them ends in a normal return.                                         *)
C10_OtherStatusRaises ==
    (/\ last.op \in PublicOps /\ Answered
     /\ last.resp.status \notin (IF last.op \in ReadOps THEN {200, 404, 409}
                                 ELSE {200, 400, 409})) =>
        last.out = Raise("HTTPError", "", last.resp.status)

----------------------------------------------------------------------------
(* C11: when _is_rate_limited() returns from a non-empty record, the record *)
(* holds no entry older than the long window at the instant of the call:    *)
(* every stale entry was removed in that one pass.                          *)
C11_NoStaleAfterCheck ==
    (last.op = "_is_rate_limited" /\ last.before # <<>>) =>
        NoStale(request_timestamps, last.now)

(* C12: a second _is_rate_limited() at the same instant, with no attempt    *)
(* recorded in between, gives the verdict of the first and leaves the       *)
(* record as the first left it, stale entries or not.                       *)
C12_SecondCheckChangesNothing ==
    last.op = "_is_rate_limited" =>
        LET again == IsRateLimited(request_timestamps, last.now)
        IN  /\ again.limited = last.limited
            /\ again.stamps = request_timestamps

(* C13: a call of a public operation runs the rate-limit check at most      *)
(* once, then is either skipped or dispatched, never both, and ends in one  *)
(* outcome: it appends at most one timestamp and sends at most one request, *)
(* and a failed request is not sent again.                                  *)
C13_OneCheckOneAppendOneRequest ==
    last.op \in PublicOps =>
        /\ sent - last.sent0 \in {0, 1}
        /\ appended - last.appended0 \in {0, 1}
        /\ Len(request_timestamps) <= Len(last.before) + 1
        /\ last.out.kind \in {"return", "raise"}
        /\ IF last.checked
           THEN last.limited # last.requested
           ELSE /\ ~last.limited /\ ~last.requested
                /\ last.out.exc = "ValueError"
                /\ request_timestamps = last.before
        /\ last.limited =>
              /\ sent = last.sent0 /\ appended = last.appended0
              /\ last.out = Return(PyNone)
        /\ last.requested =>
              /\ sent = last.sent0 + 1 /\ appended = last.appended0 + 1
              /\ last.resp.raised => last.out.kind = "raise"
              /\ (~last.resp.raised /\ last.resp.status >= 500) =>
                    last.out.exc = "HTTPError"

\* a request answered with a server error: it was sent once and not again
C13_Witness ==
    /\ last.op = "generate_map"
    /\ last.requested
    /\ ~last.resp.raised /\ last.resp.status = 500
    /\ last.out.exc = "HTTPError"
    /\ sent = last.sent0 + 1
    /\ last.sent0 > 0

(* C14: _validate_map_seed returns True exactly for 0 <= seed <= 2147483645 *)
(* and _validate_map_size exactly for 1000 <= size <= 6000, both ends       *)
(* included; for every other integer the validator raises ValueError.       *)
C14_ValidatorsAcceptExactlyTheRanges ==
    /\ last.op = "_validate_map_seed" =>
          last.out = IF 0 <= last.seed /\ last.seed <= 2147483645
                     THEN Return(PyTrue)
                     ELSE Raise("ValueError", "", 0)
    /\ last.op = "_validate_map_size" =>
          last.out = IF 1000 <= last.size /\ last.size <= 6000
                     THEN Return(PyTrue)
                     ELSE Raise("ValueError", "", 0)

\* the largest seed is accepted
C14_Witness ==
    /\ last.op = "_validate_map_seed"
    /\ last.seed = 2147483645
    /\ last.out = Return(PyTrue)

\* entries of a record whose exact age at now is at most w seconds
ExactCount(stamps, now, w) ==
    Cardinality({i \in 1..Len(stamps) : now - stamps[i] <= w * TicksPerSecond})

\* the verdict 'not allowed' taken on exact ages: a window holds its maximum
ExactLimited(stamps, now) ==
    \/ ExactCount(stamps, now, MinuteWindow) >= MAX_REQUESTS_PER_MINUTE
    \/ ExactCount(stamps, now, HourWindow) >= MAX_REQUESTS_PER_HOUR

(* C15: whenever the verdict on exact ages, with the same windows and       *)
(* maxima, is 'not allowed', _is_rate_limited() with its rounded-up ages    *)
(* answers 'not allowed' too.                                               *)
C15_NeverLooserThanExact ==
    last.op = "_is_rate_limited" =>
        (ExactLimited(last.before, last.now) => last.limited)

\* the decisions of the loop on one entry, taken on the rounded-up seconds
\* and taken on the exact age, differ
DecisionsDiffer(now, stamp) ==
    \/ (StampDiff(now, stamp) <= MinuteWindow)
          # (now - stamp <= MinuteWindow * TicksPerSecond)
    \/ (StampDiff(now, stamp) <= HourWindow)
          # (now - stamp <= HourWindow * TicksPerSecond)
    \/ (StampDiff(now, stamp) > HourWindow)
          # (now - stamp > HourWindow * TicksPerSecond)

(* C16 as stated: there are a timestamp and an instant for which window     *)
(* membership or pruning decided on the rounded-up seconds differs from     *)
(* the decision on the exact age against the same thresholds: some check    *)
(* of some record meets such an entry.                                      *)
C16_RoundingChangesSomeDecision ==
    <>(/\ last.op = "_is_rate_limited"
       /\ \E i \in 1..Len(last.before) :
             DecisionsDiffer(last.now, last.before[i]))

(* C16 amended: for every entry of every record checked, window membership  *)
(* and pruning decided on the rounded-up seconds are the decisions on the   *)
(* exact age against the same thresholds.                                   *)
C16_RoundingChangesNoDecision ==
    last.op = "_is_rate_limited" =>
        \A i \in 1..Len(last.before) : ~DecisionsDiffer(last.now, last.before[i])

\* a check met one entry half a second short of the short window and another
\* half a second past the long one: rounded up they sit on and past the limits
C16_Witness ==
    /\ last.op = "_is_rate_limited"
    /\ \E i \in 1..Len(last.before) :
          /\ last.now - last.before[i] = MinuteWindow * TicksPerSecond - 1
          /\ StampDiff(last.now, last.before[i]) = MinuteWindow
    /\ \E i \in 1..Len(last.before) :
          /\ last.now - last.before[i] = HourWindow * TicksPerSecond + 1
          /\ StampDiff(last.now, last.before[i]) = HourWindow + 1

(* C17: one pass of _is_rate_limited() classifies every entry of the record *)
(* once by its rounded-up seconds: at most the short window, it adds one to *)
(* both counters; above it and at most the long window, one to the hourly   *)
(* counter only, and it is kept; above the long window it is removed and    *)
(* counted nowhere.                                                         *)
C17_EveryEntryClassifiedOnce ==
    (last.op = "_is_rate_limited" /\ last.before # <<>>) =>
        LET pass == ScanFrom(last.before, 1, last.now, 0, 0)
            Kept(stamp) == StampDiff(last.now, stamp) <= HourWindow
        IN  /\ pass.reqs_this_minute =
                  WindowCount(last.before, last.now, MinuteWindow)
            /\ pass.reqs_this_hour =
                  WindowCount(last.before, last.now, HourWindow)
            /\ pass.stamps = SelectSeq(last.before, Kept)
            /\ request_timestamps = pass.stamps

\* a sequence without the items at the positions in D
RECURSIVE DropAt(_, _)
DropAt(s, D) ==
    IF s = <<>> THEN <<>>
    ELSE LET rest == DropAt(SubSeq(s, 1, Len(s) - 1), D)
         IN  IF Len(s) \in D THEN rest ELSE Append(rest, s[Len(s)])

\* positions of the record holding entries older than the long window
StalePositions ==
    {i \in 1..Len(request_timestamps) :
        StampDiff(clock, request_timestamps[i]) > HourWindow}

(* C18: a step that runs _is_rate_limited() changes the record at most by   *)
(* deleting entries older than the long window: the entries left are in     *)
(* their order, none is added, none of at most the long window is removed,  *)
(* an empty record stays empty.  No other step takes an entry out of the    *)
(* record.                                                                  *)
C18_OnlyStaleEntriesDeleted ==
    [][IF last = NoCall /\ last'.op = "_is_rate_limited"
       THEN \E D \in SUBSET StalePositions :
                request_timestamps' = DropAt(request_timestamps, D)
       ELSE /\ Len(request_timestamps') \in
                   {Len(request_timestamps), Len(request_timestamps) + 1}
            /\ SubSeq(request_timestamps', 1, Len(request_timestamps))
                   = request_timestamps]_vars

\* a check took a stale entry out of a record and kept the entries behind it
C18_Witness ==
    /\ last.op = "_is_rate_limited"
    /\ Len(request_timestamps) < Len(last.before)
    /\ Len(request_timestamps) >= 2
    /\ NoStale(request_timestamps, last.now)
    /\ request_timestamps =
          SubSeq(last.before, Len(last.before) - Len(request_timestamps) + 1,
                 Len(last.before))

\* more than the long window has passed at now since every entry of the record
AllAgedOut(stamps, now) ==
    \A i \in 1..Len(stamps) : now - stamps[i] > HourWindow * TicksPerSecond

(* C19: the limiter locks nobody out for good: a call made when more than   *)
(* the long window has passed since the last recorded attempt is allowed    *)
(* by the check, however full the record was, and its request is sent.      *)
C19_NoPermanentLockout ==
    (/\ last.op \in PublicOps
     /\ last.checked
     /\ AllAgedOut(last.before, last.now)) =>
        /\ ~last.limited
        /\ last.requested
        /\ sent = last.sent0 + 1

\* the record held the short-window maximum when its last attempt was made,
\* so the check answered 'limited' then; the long window later a call is sent
C19_Witness ==
    /\ last.op \in PublicOps
    /\ last.requested
    /\ Len(last.before) >= MAX_REQUESTS_PER_MINUTE
    /\ WindowCount(last.before, last.before[Len(last.before)], MinuteWindow)
          >= MAX_REQUESTS_PER_MINUTE
    /\ AllAgedOut(last.before, last.now)

(* C20: _is_rate_limited() does not block: while it runs, its next step can *)
(* always be taken, whatever the clock reads, and it has visited at most as *)
(* many entries as the record held on entry, removals included; it returns  *)
(* what the whole pass computes.                                            *)
C20_CheckVisitsAtMostTheRecord ==
    /\ scan.pc = "loop" =>
          /\ scan.visited <= Len(scan.entry)
          /\ Len(request_timestamps) <= Len(scan.entry)
          /\ ENABLED (LoopIter \/ LoopReturn)
    /\ (last.op = "_is_rate_limited" /\ scan = NotScanning) =>
          /\ last.limited = IsRateLimited(last.before, last.now).limited
          /\ request_timestamps = IsRateLimited(last.before, last.now).stamps

\* the loop is about to return from a record it removed an entry of while
\* iterating, having visited fewer entries than the record held, and the
\* clock has not moved since the loop began
C20_Witness ==
    /\ scan.pc = "loop"
    /\ scan.i > Len(request_timestamps)
    /\ Len(request_timestamps) < Len(scan.entry)
    /\ scan.visited < Len(scan.entry)
    /\ scan.visited >= 2
    /\ clock = scan.now

====
